---------------------------- MODULE Spec2Model ----------------------------
(***************************************************************************)
(* Shape inference over a Caffe2 operator graph, as done by the notebook   *)
(* "Reading TensorFlow & Caffe2 Models.ipynb": the weight-shape table, the *)
(* per-operator shape computation, the walk over the operator list and the *)
(* conversion of the description rows to CSV lines.                        *)
(*                                                                         *)
(* Python values are encoded as follows.  An int is a TLA+ integer, a str  *)
(* a TLA+ string, a list a sequence, a dict a function on its keys.  A     *)
(* value that may be None (the result of dict.get, of next(..., None)) is  *)
(* None == <<>> or Some(v) == <<v>>.                                       *)
(***************************************************************************)
EXTENDS Integers, Sequences, FiniteSets, TLC

VARIABLES
  caffe2_tensor_defs,   \* init_net: the operators that produce the parameters
  tensor_out_channels,  \* dict: weight handle -> leading dimension
  caffe2_model_def,     \* predict_net: the operators of the network, in order
  dimensions,           \* dict: tensor handle -> (h, w, channels)
  descriptions,         \* list of description rows; CSV lines after the export cell
  pc,                   \* "loop", "export", "done", "error", "call"/"returned",
                        \* or "tf_start", "tf_loop", "tf_done", "tf_error"
  idx,                  \* number of operators the for loop has consumed
  error,                \* the exception that ended the run, or NoError
  input_h, input_w, input_channels,      \* globals assigned by the loop body
  output_h, output_w, output_channels,
  descr,
  previous,             \* outcome of the preceding run of the cells, or NoRun
  call,                 \* arguments of a direct call of a function of the notebook
  ret,                  \* what that call returned
  graph_def,            \* the nodes of the TensorFlow graph, in order
  var_dimensions,       \* dict: name of a variable's read node -> its shape
  nodes,                \* the nodes of graph_def the TensorFlow cell describes
  output_channels_per_input  \* dict: node name -> out_channels

vars == <<caffe2_tensor_defs, tensor_out_channels, caffe2_model_def, dimensions,
          descriptions, pc, idx, error, input_h, input_w, input_channels,
          output_h, output_w, output_channels, descr, previous, call, ret,
          graph_def, var_dimensions, nodes, output_channels_per_input>>

\* the globals of the TensorFlow cells
tf_vars == <<graph_def, var_dimensions, nodes, output_channels_per_input>>

-----------------------------------------------------------------------------
(* Bounds of the model *)

\* longest operator list of a predict_net
MaxOps == 3
\* largest spatial size, kernel size and channel count of a direct call
MaxSize == 4
\* largest padding and stride of a direct call
MaxAttr == 2

-----------------------------------------------------------------------------
(* Python values *)

None == <<>>
Some(v) == <<v>>
Unset == <<"unset">>
NoError == "none"
NoRun == <<>>

\* truth value of an optional int: None and 0 are false
Truthy(o) == o # None /\ o[1] # 0

\* Python's `o or d` for an optional int o
Or(o, d) == IF Truthy(o) THEN o[1] ELSE d

\* str.endswith
EndsWith(s, suffix) ==
  Len(s) >= Len(suffix) /\ SubSeq(s, Len(s) - Len(suffix) + 1, Len(s)) = suffix

Min(S) == CHOOSE m \in S : \A n \in S : m <= n
Max(S) == CHOOSE m \in S : \A n \in S : m >= n

\* dict.get(key), None when the key is absent
Get(d, key) == IF key \in DOMAIN d THEN Some(d[key]) ELSE None

\* d[key] = value
Put(d, key, value) ==
  [k \in (DOMAIN d) \cup {key} |-> IF k = key THEN value ELSE d[k]]

\* math.floor(a / b) for an int a and an int b >= 1
floor_div(a, b) == a \div b

-----------------------------------------------------------------------------
(* The weight-shape table *)

\* {o.output[0]: o.arg[0].ints[0] for o in defs if o.output[0].endswith('_w')}
\* a later operator with the same output replaces an earlier one
WeightShapes(defs) ==
  LET keep == {j \in DOMAIN defs : EndsWith(defs[j].output[1], "_w")}
      keys == {defs[j].output[1] : j \in keep}
  IN  [k \in keys |->
         defs[Max({j \in keep : defs[j].output[1] = k})].arg[1].ints[1]]

-----------------------------------------------------------------------------
(* Shape of one operator *)

\* the width computed from the height's arguments
compute_out_dimensions_square(in_h, in_w, kernel_h, kernel_w, padding, stride) ==
  LET out_h == floor_div(in_h - kernel_h + 2 * Or(padding, 0), Or(stride, 1)) + 1
  IN  <<out_h, out_h>>

compute_out_dimensions(in_h, in_w, kernel_h, kernel_w, padding, stride) ==
  LET out_h == floor_div(in_h - kernel_h + 2 * Or(padding, 0), Or(stride, 1)) + 1
      out_w == floor_div(in_w - kernel_w + 2 * Or(padding, 0), Or(stride, 1)) + 1
  IN  <<out_h, out_w>>

\* {a.name: a.i for a in op.arg}
ArgsOf(op) ==
  LET names == {op.arg[j].name : j \in DOMAIN op.arg}
  IN  [n \in names |-> op.arg[Max({j \in DOMAIN op.arg : op.arg[j].name = n})].i]

\* next((inp for inp in op.input if inp.endswith('_w')), None)
WeightsTensor(op) ==
  LET hits == {j \in DOMAIN op.input : EndsWith(op.input[j], "_w")}
  IN  IF hits = {} THEN None ELSE Some(op.input[Min(hits)])

\* the weight-shape table is never consulted
OutChannelsInherited(op, in_channels) == in_channels

\* the channel count parse_caffe2_op gives the output
OutChannels(op, in_channels) ==
  LET weights_tensor == WeightsTensor(op)
  IN  IF weights_tensor # None
        THEN tensor_out_channels[weights_tensor[1]]
        ELSE in_channels

\* the formula is applied to every operator, with kernel 0 when it has none
OutSpatialAlways(op, in_h, in_w) ==
  LET args == ArgsOf(op)
      kernel_size == Or(Get(args, "kernel"), 0)
  IN  compute_out_dimensions(in_h, in_w, kernel_size, kernel_size,
                             Get(args, "pad"), Get(args, "stride"))

\* the spatial size parse_caffe2_op gives the output
OutSpatial(op, in_h, in_w) ==
  LET args == ArgsOf(op)
      kernel_size == Get(args, "kernel")
  IN  IF Truthy(kernel_size)
        THEN compute_out_dimensions(in_h, in_w, kernel_size[1], kernel_size[1],
                                    Get(args, "pad"), Get(args, "stride"))
        ELSE <<in_h, in_w>>

\* parse_caffe2_op raises KeyError: the weight handle is not in the table
ParseRaises(op) ==
  /\ WeightsTensor(op) # None
  /\ WeightsTensor(op)[1] \notin DOMAIN tensor_out_channels

parse_caffe2_op(op, in_h, in_w, in_channels) ==
  LET args == ArgsOf(op)
      padding == Get(args, "pad")
      stride == Get(args, "stride")
      kernel_size == Get(args, "kernel")
      out_channels == OutChannels(op, in_channels)
      out == OutSpatial(op, in_h, in_w)
      description == <<op.type, in_channels, out_channels, kernel_size, kernel_size,
                       padding, stride, out[1], out[2]>>
  IN  <<out[1], out[2], out_channels, description>>

-----------------------------------------------------------------------------
(* The inputs: the two protobuf messages the notebook reads *)

\* an OperatorDef of predict_net, restricted to the fields the notebook reads
Op(type, input, output, arg) ==
  [type |-> type, input |-> input, output |-> output, arg |-> arg]

\* an Argument with its scalar int field
Arg(name, i) == [name |-> name, i |-> i]

\* an operator of init_net: a fill operator whose first argument is the shape
Fill(output, shape) == [output |-> <<output>>, arg |-> <<[ints |-> shape]>>]

\* the tensor the notebook seeds the dimension table with
DataHandle == "gpu_0/data"

\* init_net messages: conv1_w defined once, or twice (the later one wins)
InitNets ==
  { <<Fill("conv1_w", <<64, 3, 7, 7>>), Fill("conv1_b", <<64>>),
      Fill("pred_w", <<1000, 64>>)>>,
    <<Fill("conv1_w", <<32, 3, 7, 7>>), Fill("pred_w", <<10, 64>>),
      Fill("conv1_w", <<16, 3, 7, 7>>)>> }

\* the operators a predict_net is made of
NetOps ==
  { Op("Conv", <<DataHandle, "conv1_w">>, <<"a">>,
       <<Arg("kernel", 7), Arg("pad", 3), Arg("stride", 2)>>),
    Op("Conv", <<"a", "conv1_w">>, <<"b">>, <<Arg("kernel", 1)>>),
    Op("Conv", <<"a", "miss_w">>, <<"b">>,
       <<Arg("kernel", 3), Arg("pad", 1), Arg("stride", 1)>>),
    Op("MaxPool", <<"a">>, <<"b">>,
       <<Arg("kernel", 3), Arg("pad", 1), Arg("stride", 2)>>),
    Op("MaxPool", <<DataHandle>>, <<"b">>,
       <<Arg("kernel", 3), Arg("pad", 0), Arg("stride", 0)>>),
    Op("MaxPool", <<"b">>, <<"b">>, <<Arg("kernel", 226), Arg("stride", 2)>>),
    Op("AveragePool", <<"b">>, <<"a">>, <<Arg("kernel", 0), Arg("stride", 1)>>),
    Op("AveragePool", <<DataHandle>>, <<DataHandle>>, <<Arg("kernel", 7)>>),
    Op("SpatialBN", <<DataHandle>>, <<"a", "b">>, <<Arg("is_test", 1)>>),
    Op("Relu", <<"a">>, <<"a">>, <<>>),
    Op("Relu", <<DataHandle>>, <<"b">>, <<>>),
    Op("Sum", <<"a", "b">>, <<"a">>, <<>>),
    Op("FC", <<"a", "pred_w">>, <<"b">>, <<>>),
    Op("Softmax", <<"b">>, <<"a">>, <<>>),
    Op("Dropout", <<"a">>, <<"b", "mask">>, <<Arg("is_test", 1)>>) }

\* dimensions = {'gpu_0/data': (224, 224, 3)}
SeedDimensions == [h \in {DataHandle} |-> <<224, 224, 3>>]

\* the operator lists of up to MaxOps operators
NetDefs == UNION {[1..n -> NetOps] : n \in 0..MaxOps}

-----------------------------------------------------------------------------
(* The walk: descriptions = []; dimensions = {...}; for op in caffe2_model_def.op *)

InitWalk ==
  /\ caffe2_tensor_defs \in InitNets
  /\ tensor_out_channels = WeightShapes(caffe2_tensor_defs)
  /\ caffe2_model_def \in NetDefs
  /\ dimensions = SeedDimensions
  /\ descriptions = <<>>
  /\ pc = "loop"
  /\ idx = 0
  /\ error = NoError
  /\ input_h = Unset /\ input_w = Unset /\ input_channels = Unset
  /\ output_h = Unset /\ output_w = Unset /\ output_channels = Unset
  /\ descr = Unset
  /\ previous = NoRun
  /\ call = None
  /\ ret = None
  /\ graph_def = <<>> /\ var_dimensions = <<>> /\ nodes = <<>>
  /\ output_channels_per_input = <<>>

\* the operator the loop is about to process
CurrentOp == caffe2_model_def[idx + 1]

InLoop == pc = "loop" /\ idx < Len(caffe2_model_def)

\* an iteration fed with the output of the operator processed just before it
LoopBodyPrevious ==
  /\ InLoop
  /\ CurrentOp.input[1] \in DOMAIN dimensions
  /\ ~ParseRaises(CurrentOp)
  /\ LET in == IF idx = 0 THEN dimensions[CurrentOp.input[1]]
               ELSE <<descriptions[idx][8], descriptions[idx][9],
                      descriptions[idx][3]>>
         r == parse_caffe2_op(CurrentOp, in[1], in[2], in[3])
     IN  /\ input_h' = in[1] /\ input_w' = in[2] /\ input_channels' = in[3]
         /\ output_h' = r[1] /\ output_w' = r[2] /\ output_channels' = r[3]
         /\ descr' = r[4]
         /\ dimensions' = Put(dimensions, CurrentOp.output[1], <<r[1], r[2], r[3]>>)
         /\ descriptions' = Append(descriptions, r[4])
  /\ idx' = idx + 1
  /\ UNCHANGED <<caffe2_tensor_defs, tensor_out_channels, caffe2_model_def, pc,
                 error, previous, call, tf_vars, ret>>

\* an iteration that runs to its end without moving on to the next operator
LoopBodyStuck ==
  /\ InLoop
  /\ CurrentOp.input[1] \in DOMAIN dimensions
  /\ ~ParseRaises(CurrentOp)
  /\ LET in == dimensions[CurrentOp.input[1]]
         r == parse_caffe2_op(CurrentOp, in[1], in[2], in[3])
     IN  /\ input_h' = in[1] /\ input_w' = in[2] /\ input_channels' = in[3]
         /\ output_h' = r[1] /\ output_w' = r[2] /\ output_channels' = r[3]
         /\ descr' = r[4]
         /\ dimensions' = Put(dimensions, CurrentOp.output[1], <<r[1], r[2], r[3]>>)
         /\ descriptions' = Append(descriptions, r[4])
  /\ UNCHANGED <<caffe2_tensor_defs, tensor_out_channels, caffe2_model_def, pc,
                 idx, error, previous, call, tf_vars, ret>>

\* one iteration of the loop that runs to its end
LoopBody ==
  /\ InLoop
  /\ CurrentOp.input[1] \in DOMAIN dimensions
  /\ ~ParseRaises(CurrentOp)
  /\ LET in == dimensions[CurrentOp.input[1]]
         r == parse_caffe2_op(CurrentOp, in[1], in[2], in[3])
     IN  /\ input_h' = in[1] /\ input_w' = in[2] /\ input_channels' = in[3]
         /\ output_h' = r[1] /\ output_w' = r[2] /\ output_channels' = r[3]
         /\ descr' = r[4]
         /\ dimensions' = Put(dimensions, CurrentOp.output[1], <<r[1], r[2], r[3]>>)
         /\ descriptions' = Append(descriptions, r[4])
  /\ idx' = idx + 1
  /\ UNCHANGED <<caffe2_tensor_defs, tensor_out_channels, caffe2_model_def, pc,
                 error, previous, call, tf_vars, ret>>

\* dimensions[op.input[0]] raises KeyError: the first input is not in the table
LoopInputKeyError ==
  /\ InLoop
  /\ CurrentOp.input[1] \notin DOMAIN dimensions
  /\ pc' = "error"
  /\ error' = "KeyError: dimensions"
  /\ UNCHANGED <<caffe2_tensor_defs, tensor_out_channels, caffe2_model_def,
                 dimensions, descriptions, idx, input_h, input_w, input_channels,
                 output_h, output_w, output_channels, descr, previous, call, tf_vars, ret>>

\* the output is bound to the input's dimension before the lookup of the weight
\* shape raises
LoopWeightKeyErrorPartial ==
  /\ InLoop
  /\ CurrentOp.input[1] \in DOMAIN dimensions
  /\ ParseRaises(CurrentOp)
  /\ LET in == dimensions[CurrentOp.input[1]]
     IN  /\ input_h' = in[1] /\ input_w' = in[2] /\ input_channels' = in[3]
         /\ dimensions' = Put(dimensions, CurrentOp.output[1], in)
  /\ pc' = "error"
  /\ error' = "KeyError: tensor_out_channels"
  /\ UNCHANGED <<caffe2_tensor_defs, tensor_out_channels, caffe2_model_def,
                 descriptions, idx, output_h, output_w,
                 output_channels, descr, previous, call, tf_vars, ret>>

\* the missing weight shape is replaced by the input's channel count
\* (tensor_out_channels.get(weights_tensor, in_channels)) and the loop goes on
LoopWeightFallback ==
  /\ InLoop
  /\ CurrentOp.input[1] \in DOMAIN dimensions
  /\ ParseRaises(CurrentOp)
  /\ LET in == dimensions[CurrentOp.input[1]]
         out == OutSpatial(CurrentOp, in[1], in[2])
         row == <<CurrentOp.type, in[3], in[3], None, None, None, None,
                  out[1], out[2]>>
     IN  /\ input_h' = in[1] /\ input_w' = in[2] /\ input_channels' = in[3]
         /\ output_h' = out[1] /\ output_w' = out[2] /\ output_channels' = in[3]
         /\ descr' = row
         /\ dimensions' = Put(dimensions, CurrentOp.output[1],
                              <<out[1], out[2], in[3]>>)
         /\ descriptions' = Append(descriptions, row)
  /\ idx' = idx + 1
  /\ UNCHANGED <<caffe2_tensor_defs, tensor_out_channels, caffe2_model_def, pc,
                 error, previous, call, tf_vars, ret>>

\* tensor_out_channels[weights_tensor] raises KeyError inside parse_caffe2_op,
\* after the loop body has assigned the input globals
LoopWeightKeyError ==
  /\ InLoop
  /\ CurrentOp.input[1] \in DOMAIN dimensions
  /\ ParseRaises(CurrentOp)
  /\ LET in == dimensions[CurrentOp.input[1]]
     IN  input_h' = in[1] /\ input_w' = in[2] /\ input_channels' = in[3]
  /\ pc' = "error"
  /\ error' = "KeyError: tensor_out_channels"
  /\ UNCHANGED <<caffe2_tensor_defs, tensor_out_channels, caffe2_model_def,
                 dimensions, descriptions, idx, output_h, output_w,
                 output_channels, descr, previous, call, tf_vars, ret>>

\* the list is exhausted: the cell ends and the export cell is next
LoopEnd ==
  /\ pc = "loop" /\ idx = Len(caffe2_model_def)
  /\ pc' = "export"
  /\ UNCHANGED <<caffe2_tensor_defs, tensor_out_channels, caffe2_model_def,
                 dimensions, descriptions, idx, error, input_h, input_w,
                 input_channels, output_h, output_w, output_channels, descr,
                 previous, call, tf_vars, ret>>

-----------------------------------------------------------------------------
(* The export cell: rows to CSV lines *)

op_names ==
  [t \in {"Conv", "SpatialBN", "Relu", "MaxPool", "Sum", "AveragePool", "FC",
          "Softmax"} |->
     CASE t = "SpatialBN" -> "BatchNorm"
       [] t = "FC" -> "FullyConnected"
       [] OTHER -> t]

\* str(val) if val else '': a zero is taken for an absent value
stringify_falsy(val) == IF Truthy(val) THEN ToString(val[1]) ELSE ""

\* str(val) if val is not None else '', for an optional int
stringify(val) == IF val # None THEN ToString(val[1]) ELSE ""

\* list(map(stringify, descr)): the type is a str already, the counts are ints
StringifyRow(row) ==
  <<row[1], stringify(Some(row[2])), stringify(Some(row[3])), stringify(row[4]),
    stringify(row[5]), stringify(row[6]), stringify(row[7]),
    stringify(Some(row[8])), stringify(Some(row[9]))>>

\* descr[0] = op_names[descr[0]]; return descr
translate_op_name(row) == [row EXCEPT ![1] = op_names[row[1]]]

RECURSIVE Join(_, _)
\* sep.join(strs)
Join(sep, strs) ==
  IF strs = <<>> THEN ""
  ELSE IF Len(strs) = 1 THEN strs[1]
  ELSE strs[1] \o sep \o Join(sep, Tail(strs))

\* every row's type has a canonical name
Translatable ==
  \A j \in DOMAIN descriptions : descriptions[j][1] \in DOMAIN op_names

Export ==
  /\ pc = "export"
  /\ Translatable
  /\ descriptions' =
       [j \in DOMAIN descriptions |->
          Join(",", translate_op_name(StringifyRow(descriptions[j])))]
  /\ pc' = "done"
  /\ UNCHANGED <<caffe2_tensor_defs, tensor_out_channels, caffe2_model_def,
                 dimensions, idx, error, input_h, input_w, input_channels,
                 output_h, output_w, output_channels, descr, previous, call, tf_vars, ret>>

\* op_names[descr[0]] raises KeyError: a row's type has no canonical name
ExportKeyError ==
  /\ pc = "export"
  /\ ~Translatable
  /\ pc' = "error"
  /\ error' = "KeyError: op_names"
  /\ UNCHANGED <<caffe2_tensor_defs, tensor_out_channels, caffe2_model_def,
                 dimensions, descriptions, idx, input_h, input_w, input_channels,
                 output_h, output_w, output_channels, descr, previous, call, tf_vars, ret>>

-----------------------------------------------------------------------------
(* Running the two cells again on the same messages *)

\* what a run ended with
Outcome == [descriptions |-> descriptions, error |-> error, idx |-> idx]

Finished == pc \in {"done", "error"}

\* only the loop is executed again: the dimension table is not seeded anew
RunAgainStale ==
  /\ Finished
  /\ previous = NoRun
  /\ previous' = Outcome
  /\ descriptions' = <<>>
  /\ pc' = "loop"
  /\ idx' = 0
  /\ error' = NoError
  /\ UNCHANGED <<caffe2_tensor_defs, tensor_out_channels, caffe2_model_def,
                 dimensions, input_h, input_w, input_channels, output_h,
                 output_w, output_channels, descr, call, tf_vars, ret>>

\* the walk cell is executed again from its first line: descriptions = [],
\* dimensions = {...}; the globals of the loop body keep their last values
RunAgain ==
  /\ Finished
  /\ previous = NoRun
  /\ previous' = Outcome
  /\ descriptions' = <<>>
  /\ dimensions' = SeedDimensions
  /\ pc' = "loop"
  /\ idx' = 0
  /\ error' = NoError
  /\ UNCHANGED <<caffe2_tensor_defs, tensor_out_channels, caffe2_model_def,
                 input_h, input_w, input_channels, output_h, output_w,
                 output_channels, descr, call, tf_vars, ret>>

-----------------------------------------------------------------------------
(* Direct calls of compute_out_dimensions *)

Sizes == 0..MaxSize
Attrs == {None} \cup {Some(v) : v \in 0..MaxAttr}

\* (in_h, in_w, kernel_h, kernel_w, padding, stride)
ComputeCalls == Sizes \X Sizes \X Sizes \X Sizes \X Attrs \X Attrs

InitCall ==
  /\ caffe2_tensor_defs \in InitNets
  /\ tensor_out_channels = WeightShapes(caffe2_tensor_defs)
  /\ caffe2_model_def = <<>>
  /\ dimensions = SeedDimensions
  /\ descriptions = <<>>
  /\ pc = "call"
  /\ idx = 0
  /\ error = NoError
  /\ input_h = Unset /\ input_w = Unset /\ input_channels = Unset
  /\ output_h = Unset /\ output_w = Unset /\ output_channels = Unset
  /\ descr = Unset
  /\ previous = NoRun
  /\ call \in ComputeCalls
  /\ ret = None
  /\ graph_def = <<>> /\ var_dimensions = <<>> /\ nodes = <<>>
  /\ output_channels_per_input = <<>>

Call ==
  /\ pc = "call"
  /\ ret' = compute_out_dimensions(call[1], call[2], call[3], call[4], call[5],
                                   call[6])
  /\ pc' = "returned"
  /\ UNCHANGED <<caffe2_tensor_defs, tensor_out_channels, caffe2_model_def,
                 dimensions, descriptions, idx, error, input_h, input_w,
                 input_channels, output_h, output_w, output_channels, descr,
                 previous, call, tf_vars>>

-----------------------------------------------------------------------------
(* The TensorFlow cells *)

\* str.startswith
StartsWith(s, prefix) ==
  Len(s) >= Len(prefix) /\ SubSeq(s, 1, Len(prefix)) = prefix

\* a node of the graph: attr['_output_shapes'].list.shape[0] as output_shapes,
\* attr['ksize'].list.i as ksize (None when the node has no such attribute),
\* attr['strides'].list.i as strides (empty when the node has none)
TFNode(name, op, input, output_shapes, ksize, strides) ==
  [name |-> name, op |-> op, input |-> input, output_shapes |-> output_shapes,
   ksize |-> ksize, strides |-> strides]

ops == {"Conv2D", "FusedBatchNorm", "MaxPool", "Relu", "Add"}

\* op_names of the TensorFlow cell, which rebinds the name
tf_op_names ==
  [t \in ops |->
     CASE t = "Conv2D" -> "Conv"
       [] t = "FusedBatchNorm" -> "BatchNorm"
       [] t = "Add" -> "Sum"
       [] OTHER -> t]

TowerPrefix == "v/tower_0/cg"

\* next(name for name in node.input if name.endswith('read')), None when the
\* generator is empty and next raises StopIteration
ParamNodeName(node) ==
  LET reads == {j \in DOMAIN node.input : EndsWith(node.input[j], "read")}
  IN  IF reads = {} THEN None ELSE Some(node.input[Min(reads)])

\* var_dimensions[param_node_name][0:2]
extract_conv_param_hw(node) ==
  SubSeq(var_dimensions[ParamNodeName(node)[1]], 1, 2)

\* [d.size for d in node.attr['_output_shapes'].list.shape[0].dim]
extract_output_dims(node) == node.output_shapes

\* describe_tf_node raises: StopIteration from next, or KeyError from
\* var_dimensions, both inside extract_conv_param_hw
DescribeRaises(node) ==
  /\ node.ksize = None
  /\ node.op = "Conv2D"
  /\ IF ParamNodeName(node) = None THEN TRUE
     ELSE ParamNodeName(node)[1] \notin DOMAIN var_dimensions

\* returns <<out_channels, row>>, the row already a list of strings
describe_tf_node(node, in_channels) ==
  LET dims == extract_output_dims(node)
      out_h == dims[2]
      out_w == dims[3]
      out_channels == dims[4]
      kernel == IF node.ksize # None
                  THEN <<Some(node.ksize[1][2]), Some(node.ksize[1][3])>>
                ELSE IF node.op = "Conv2D"
                  THEN LET hw == extract_conv_param_hw(node)
                       IN  <<Some(hw[1]), Some(hw[2])>>
                ELSE <<None, None>>
      stride == IF Len(node.strides) > 0 THEN Some(node.strides[2]) ELSE None
  IN  <<out_channels,
        <<tf_op_names[node.op], stringify(Some(in_channels)),
          stringify(Some(out_channels)), stringify(kernel[1]),
          stringify(kernel[2]), stringify(None), stringify(stride),
          stringify(Some(out_h)), stringify(Some(out_w))>> >>

\* n.op in ops and n.name.startswith('v/tower_0/cg')
Described(n) == n.op \in ops /\ StartsWith(n.name, TowerPrefix)

\* [n for n in graph_def.node if n.op in ops and
\*  n.name.startswith('v/tower_0/cg')]
RECURSIVE DescribedNodes(_)
DescribedNodes(graph) ==
  IF graph = <<>> THEN <<>>
  ELSE IF Described(Head(graph))
    THEN <<Head(graph)>> \o DescribedNodes(Tail(graph))
  ELSE DescribedNodes(Tail(graph))

\* {n.name: extract_output_dims(n) for n in graph_def.node
\*  if n.name.endswith('read')}: the last node of a name wins
VarDimensions(graph) ==
  LET at(name) == {i \in DOMAIN graph : graph[i].name = name}
      reads == {i \in DOMAIN graph : EndsWith(graph[i].name, "read")}
  IN  [name \in {graph[i].name : i \in reads} |->
         extract_output_dims(graph[Max(at(name))])]

ReadName == "v/cg/conv0/conv2d/kernel/read"
Conv0Name == "v/tower_0/cg/conv0/conv2d/Conv2D"
Conv1Name == "v/tower_0/cg/resnet_v10/conv1/conv2d/Conv2D"
ReluName == "v/tower_0/cg/conv0/Relu"
MPoolName == "v/tower_0/cg/mpool0/MaxPool"

\* the read node of the variable with the kernel of a convolution
ReadNode ==
  TFNode(ReadName, "Identity", <<"v/cg/conv0/conv2d/kernel">>, <<7, 7, 3, 64>>,
         None, <<>>)

\* nodes of a residual network as tf_cnn_benchmarks writes them, a node of
\* a type the cell does not describe, a node of another tower, and a
\* convolution whose kernel is not read from a variable
TFNodes ==
  { TFNode(Conv0Name, "Conv2D", <<"v/tower_0/transpose", ReadName>>,
           <<64, 112, 112, 64>>, None, <<1, 2, 2, 1>>),
    TFNode(Conv1Name, "Conv2D", <<Conv0Name, ReadName>>,
           <<64, 56, 56, 256>>, None, <<1, 2, 2, 1>>),
    TFNode("v/tower_0/cg/conv0/batchnorm0/FusedBatchNorm", "FusedBatchNorm",
           <<Conv1Name, "v/cg/conv0/batchnorm0/gamma/read">>,
           <<64, 56, 56, 256>>, None, <<>>),
    TFNode(ReluName, "Relu", <<Conv0Name>>, <<64, 112, 112, 64>>, None, <<>>),
    TFNode(MPoolName, "MaxPool", <<ReluName>>, <<64, 56, 56, 64>>,
           Some(<<1, 3, 3, 1>>), <<1, 2, 2, 1>>),
    TFNode("v/tower_0/cg/resnet_v10/add", "Add", <<Conv1Name, MPoolName>>,
           <<64, 56, 56, 256>>, None, <<>>),
    TFNode("v/tower_0/cg/Pad", "Pad", <<ReluName, "v/tower_0/cg/Pad/paddings">>,
           <<64, 118, 118, 64>>, None, <<>>),
    TFNode("v/tower_1/cg/conv0/Relu", "Relu", <<"v/tower_1/transpose">>,
           <<64, 112, 112, 64>>, None, <<>>),
    TFNode("v/tower_0/cg/conv2/conv2d/Conv2D", "Conv2D",
           <<"v/tower_0/transpose", "v/tower_0/cg/conv2/kernel">>,
           <<64, 112, 112, 64>>, None, <<1, 1, 1, 1>>) }

\* the graphs of the model: the read node, then at most MaxOps nodes
TFGraphs ==
  {<<ReadNode>> \o g : g \in UNION {[1..n -> TFNodes] : n \in 0..MaxOps}}

InitTF ==
  /\ caffe2_tensor_defs \in InitNets
  /\ tensor_out_channels = WeightShapes(caffe2_tensor_defs)
  /\ caffe2_model_def = <<>>
  /\ dimensions = SeedDimensions
  /\ descriptions = <<>>
  /\ pc = "tf_start"
  /\ idx = 0
  /\ error = NoError
  /\ input_h = Unset /\ input_w = Unset /\ input_channels = Unset
  /\ output_h = Unset /\ output_w = Unset /\ output_channels = Unset
  /\ descr = Unset
  /\ previous = NoRun
  /\ call = None
  /\ ret = None
  /\ graph_def \in TFGraphs
  /\ var_dimensions = <<>> /\ nodes = <<>>
  /\ output_channels_per_input = <<>>

\* the node the loop is about to describe
CurrentNode == nodes[idx + 1]

InTFLoop == pc = "tf_loop" /\ idx < Len(nodes)

\* the cell up to its loop: var_dimensions, nodes, descriptions and the seed
TFSetup ==
  /\ pc = "tf_start"
  /\ DescribedNodes(graph_def) # <<>>
  /\ var_dimensions' = VarDimensions(graph_def)
  /\ nodes' = DescribedNodes(graph_def)
  /\ descriptions' = <<>>
  /\ output_channels_per_input' =
       Put(<<>>, DescribedNodes(graph_def)[1].input[1], 3)
  /\ pc' = "tf_loop"
  /\ UNCHANGED <<caffe2_tensor_defs, tensor_out_channels, caffe2_model_def,
                 dimensions, idx, error, input_h, input_w, input_channels,
                 output_h, output_w, output_channels, descr, previous, call,
                 ret, graph_def>>

\* nodes[0] raises IndexError: the graph has no node the cell describes
TFSetupIndexError ==
  /\ pc = "tf_start"
  /\ DescribedNodes(graph_def) = <<>>
  /\ var_dimensions' = VarDimensions(graph_def)
  /\ nodes' = <<>>
  /\ descriptions' = <<>>
  /\ pc' = "tf_error"
  /\ error' = "IndexError: nodes"
  /\ UNCHANGED <<caffe2_tensor_defs, tensor_out_channels, caffe2_model_def,
                 dimensions, idx, input_h, input_w, input_channels,
                 output_h, output_w, output_channels, descr, previous, call,
                 ret, graph_def, output_channels_per_input>>

\* one iteration of the loop that runs to its end
TFLoopBody ==
  /\ InTFLoop
  /\ CurrentNode.input[1] \in DOMAIN output_channels_per_input
  /\ ~DescribeRaises(CurrentNode)
  /\ LET r == describe_tf_node(CurrentNode,
                               output_channels_per_input[CurrentNode.input[1]])
     IN  /\ output_channels' = r[1]
         /\ descr' = r[2]
         /\ output_channels_per_input' =
              Put(output_channels_per_input, CurrentNode.name, r[1])
         /\ descriptions' = Append(descriptions, r[2])
  /\ idx' = idx + 1
  /\ UNCHANGED <<caffe2_tensor_defs, tensor_out_channels, caffe2_model_def,
                 dimensions, pc, error, input_h, input_w, input_channels,
                 output_h, output_w, previous, call, ret, graph_def,
                 var_dimensions, nodes>>

\* output_channels_per_input[n.input[0]] raises KeyError: no described node of
\* that name came before
TFLoopInputKeyError ==
  /\ InTFLoop
  /\ CurrentNode.input[1] \notin DOMAIN output_channels_per_input
  /\ pc' = "tf_error"
  /\ error' = "KeyError: output_channels_per_input"
  /\ UNCHANGED <<caffe2_tensor_defs, tensor_out_channels, caffe2_model_def,
                 dimensions, descriptions, idx, input_h, input_w,
                 input_channels, output_h, output_w, output_channels, descr,
                 previous, call, ret, tf_vars>>

\* describe_tf_node raises inside extract_conv_param_hw
TFLoopDescribeError ==
  /\ InTFLoop
  /\ CurrentNode.input[1] \in DOMAIN output_channels_per_input
  /\ DescribeRaises(CurrentNode)
  /\ pc' = "tf_error"
  /\ error' = IF ParamNodeName(CurrentNode) = None THEN "StopIteration"
              ELSE "KeyError: var_dimensions"
  /\ UNCHANGED <<caffe2_tensor_defs, tensor_out_channels, caffe2_model_def,
                 dimensions, descriptions, idx, input_h, input_w,
                 input_channels, output_h, output_w, output_channels, descr,
                 previous, call, ret, tf_vars>>

\* the list is exhausted: the rows are printed and the cell ends
TFPrint ==
  /\ pc = "tf_loop" /\ idx = Len(nodes)
  /\ pc' = "tf_done"
  /\ UNCHANGED <<caffe2_tensor_defs, tensor_out_channels, caffe2_model_def,
                 dimensions, descriptions, idx, error, input_h, input_w,
                 input_channels, output_h, output_w, output_channels, descr,
                 previous, call, ret, tf_vars>>

-----------------------------------------------------------------------------
Init == InitWalk \/ InitCall \/ InitTF

Next ==
  \/ LoopBody
  \/ LoopInputKeyError
  \/ LoopWeightKeyError
  \/ LoopEnd
  \/ Export
  \/ ExportKeyError
  \/ RunAgain
  \/ Call
  \/ TFSetup
  \/ TFSetupIndexError
  \/ TFLoopBody
  \/ TFLoopInputKeyError
  \/ TFLoopDescribeError
  \/ TFPrint

Spec == Init /\ [][Next]_vars

-----------------------------------------------------------------------------
(* Vocabulary of the properties *)

\* the loop has completed at least one iteration, and the globals of the loop
\* body are those of its last completed iteration
Processed ==
  /\ pc \in {"loop", "export", "done", "error"}
  /\ idx > 0
  /\ error # "KeyError: tensor_out_channels"

\* the operator of the last completed iteration
LastOp == caffe2_model_def[idx]

\* a step of the loop that is about to process CurrentOp
AtOp == InLoop

\* the step left the failing operator without effect
FailsHere ==
  pc' = "error" /\ dimensions' = dimensions /\ descriptions' = descriptions

\* handles the notebook itself treats as weight tensors
IsWeight(h) == EndsWith(h, "_w")

\* q = floor(num / den) + 1, stated without division
IsFloorPlusOne(q, num, den) == (q - 1) * den <= num /\ num < q * den

Attr(op, name) == Get(ArgsOf(op), name)

-----------------------------------------------------------------------------
(* C1: merge points *)

\* two inputs of CurrentOp are bound to different dimensions
MergeMismatch ==
  \E i, j \in DOMAIN CurrentOp.input :
     /\ CurrentOp.input[i] \in DOMAIN dimensions
     /\ CurrentOp.input[j] \in DOMAIN dimensions
     /\ dimensions[CurrentOp.input[i]] # dimensions[CurrentOp.input[j]]

\* C1: an operator with several inputs, two of which are bound to different
\* dimensions, makes the walk fail at that operator: no output is bound and no
\* row is appended.
C1_MergePointCheck ==
  [][(AtOp /\ MergeMismatch) => FailsHere]_vars

-----------------------------------------------------------------------------
(* C2: the spatial formula *)

\* C2: for present padding p >= 0 and stride s >= 1, compute_out_dimensions
\* returns floor((n - k + 2p) / s) + 1, for the height from in_h and kernel_h and
\* for the width from in_w and kernel_w; in the walk 224, k=7, s=2, p=3 gives 112
\* and 112, k=3, s=2, p=1 gives 56.
C2_SpatialFormula ==
  /\ (pc = "returned" /\ call[5] # None /\ call[6] # None /\ call[6][1] >= 1) =>
       /\ IsFloorPlusOne(ret[1], call[1] - call[3] + 2 * call[5][1], call[6][1])
       /\ IsFloorPlusOne(ret[2], call[2] - call[4] + 2 * call[5][1], call[6][1])
  /\ (Processed /\ Truthy(Attr(LastOp, "kernel")) /\ Attr(LastOp, "pad") # None
        /\ Attr(LastOp, "stride") # None /\ Attr(LastOp, "stride")[1] >= 1) =>
       LET k == Attr(LastOp, "kernel")[1]
           p == Attr(LastOp, "pad")[1]
           s == Attr(LastOp, "stride")[1]
       IN  /\ IsFloorPlusOne(output_h, input_h - k + 2 * p, s)
           /\ IsFloorPlusOne(output_w, input_w - k + 2 * p, s)
           /\ (input_h = 224 /\ k = 7 /\ s = 2 /\ p = 3) => output_h = 112
           /\ (input_h = 112 /\ k = 3 /\ s = 2 /\ p = 1) => output_h = 56

\* a call with different height and width, different kernels and a division
\* that does not come out even
C2_Witness ==
  /\ pc = "returned"
  /\ call = <<4, 3, 1, 2, Some(1), Some(2)>>
  /\ ret = <<3, 2>>

-----------------------------------------------------------------------------
(* C3: declaration order *)

\* an input of CurrentOp, weight tensors aside, is not in the dimension table
SomeInputUnbound ==
  \E j \in DOMAIN CurrentOp.input :
     ~IsWeight(CurrentOp.input[j]) /\ CurrentOp.input[j] \notin DOMAIN dimensions

\* C3: an operator one of whose input handles (the first or any other) is not
\* bound in the dimension table makes the walk fail at that operator instead of
\* computing an output.
C3_EveryInputBound ==
  [][(AtOp /\ SomeInputUnbound) => FailsHere]_vars

-----------------------------------------------------------------------------
(* C4: the dimension table is append-only *)

\* C4: during a walk a binding of the dimension table never changes, and an
\* operator whose output handle is already bound (in place, or the seeded
\* handle) makes the walk fail instead of overwriting the entry.
C4_AppendOnly ==
  [][AtOp =>
       /\ \A h \in DOMAIN dimensions :
             h \in DOMAIN dimensions' /\ dimensions'[h] = dimensions[h]
       /\ (\E j \in DOMAIN CurrentOp.output :
              CurrentOp.output[j] \in DOMAIN dimensions) => FailsHere]_vars

-----------------------------------------------------------------------------
(* C5: defaults apply to absent attributes only *)

\* C5: an attribute present with the value 0 is not replaced by the default: an
\* operator with stride 0 does not get the size stride 1 gives, and an operator
\* with kernel 0 does not get its input size passed through as if it had no
\* kernel.
C5_ExplicitZeroKept ==
  /\ (Processed /\ Truthy(Attr(LastOp, "kernel"))
        /\ Attr(LastOp, "stride") = Some(0)) =>
       output_h # input_h - Attr(LastOp, "kernel")[1]
                    + 2 * Or(Attr(LastOp, "pad"), 0) + 1
  /\ (Processed /\ Attr(LastOp, "kernel") = Some(0)
        /\ Attr(LastOp, "pad") = None /\ Attr(LastOp, "stride") = Some(1)) =>
       <<output_h, output_w>> # <<input_h, input_w>>

-----------------------------------------------------------------------------
(* C6: pass-through operators *)

PassThroughTypes == {"Relu", "SpatialBN", "Sum"}

\* C6: the dimension bound to the output of a Relu, SpatialBN or Sum operator
\* equals the dimension of its (first) input in height, width and channels.
C6_PassThroughIdentity ==
  (Processed /\ LastOp.type \in PassThroughTypes) =>
     /\ <<output_h, output_w, output_channels>>
          = <<input_h, input_w, input_channels>>
     /\ dimensions[LastOp.output[1]] = <<input_h, input_w, input_channels>>
     /\ descr[3] = descr[2] /\ descr[8] = input_h /\ descr[9] = input_w

\* a Sum has merged a convolution's output with a shortcut of the same dimension
C6_Witness ==
  /\ Processed /\ pc = "loop"
  /\ LastOp.type = "Sum"
  /\ "b" \in DOMAIN dimensions
  /\ dimensions["a"] = dimensions["b"]
  /\ input_h = 112 /\ output_h = 112

-----------------------------------------------------------------------------
(* C7: output channels *)

-----------------------------------------------------------------------------
(* C8: fully connected operators *)

\* rows of FC operators, while the rows are still lists
FCRows ==
  IF pc \in {"loop", "export"}
    THEN {j \in DOMAIN descriptions : descriptions[j][1] = "FC"}
    ELSE {}

\* C8: the output of an FC operator has a fixed spatial part, the same for
\* every input, and never the height and width of its input carried through.
C8_SpatialCollapse ==
  /\ (Processed /\ LastOp.type = "FC") =>
       <<output_h, output_w>> # <<input_h, input_w>>
  /\ \A i, j \in FCRows :
       <<descriptions[i][8], descriptions[i][9]>>
         = <<descriptions[j][8], descriptions[j][9]>>

-----------------------------------------------------------------------------
(* C9: determinism *)

\* C9: a second run of the cells on the same operator list, the same weight
\* shapes and the same seed ends as the first did: the same description lines,
\* or the same failure at the same operator.
C9_Deterministic ==
  (Finished /\ previous # NoRun) => previous = Outcome

\* the second run has finished after the first rebound the seeded handle
C9_Witness ==
  /\ pc = "done" /\ previous # NoRun
  /\ Len(descriptions) >= 2
  /\ dimensions[DataHandle] # SeedDimensions[DataHandle]

-----------------------------------------------------------------------------
(* C10: all outputs are bound *)

\* C10: every output handle of a processed operator is bound in the dimension
\* table to the dimension computed for the operator.
C10_EveryOutputBound ==
  Processed =>
     \A j \in DOMAIN LastOp.output :
        /\ LastOp.output[j] \in DOMAIN dimensions
        /\ dimensions[LastOp.output[j]] = <<output_h, output_w, output_channels>>

-----------------------------------------------------------------------------
(* C12: a weight tensor without a shape *)

\* the weight tensor CurrentOp consumes has no entry in the weight-shape table
WeightShapeMissing ==
  \E j \in DOMAIN CurrentOp.input :
     /\ IsWeight(CurrentOp.input[j])
     /\ \A i \in DOMAIN CurrentOp.input : IsWeight(CurrentOp.input[i]) => j <= i
     /\ CurrentOp.input[j] \notin DOMAIN tensor_out_channels

\* C12: an operator that consumes a weight tensor (a handle ending in _w) with
\* no entry in the weight-shape table makes the run fail at that operator; no
\* channel count is made up for it, no output bound and no row appended.
C12_MissingWeightFails ==
  [][(AtOp /\ WeightShapeMissing) => (FailsHere /\ idx' = idx)]_vars

\* the run failed on a missing weight shape after a first operator went through
C12_Witness ==
  /\ pc = "error" /\ error = "KeyError: tensor_out_channels"
  /\ idx = 1
  /\ WeightsTensor(caffe2_model_def[2]) = Some("miss_w")
  /\ "b" \notin DOMAIN dimensions

-----------------------------------------------------------------------------
(* C14: dimensions are unsigned *)

\* C14: every dimension bound in the dimension table has non-negative height,
\* width and channels.
C14_NonNegativeDimensions ==
  \A h \in DOMAIN dimensions :
     dimensions[h][1] >= 0 /\ dimensions[h][2] >= 0 /\ dimensions[h][3] >= 0

-----------------------------------------------------------------------------
(* C11: operators of an unknown type *)

\* C11: an operator whose type is not in the catalog of operator names is
\* dropped: it appends no row, binds no handle and never makes the run fail.
C11_UnknownDropped ==
  /\ [][(AtOp /\ CurrentOp.type \notin DOMAIN op_names) =>
          (dimensions' = dimensions /\ descriptions' = descriptions
             /\ pc' # "error")]_vars
  /\ [](pc \in {"tf_loop", "tf_done"} =>
          /\ \A i \in DOMAIN nodes : nodes[i].op \in DOMAIN tf_op_names
          /\ \A i \in DOMAIN graph_def :
                graph_def[i].op \notin DOMAIN tf_op_names =>
                  \/ graph_def[i].name \notin DOMAIN output_channels_per_input
                  \/ \E j \in DOMAIN nodes : nodes[j].name = graph_def[i].name
                  \/ graph_def[i].name = nodes[1].input[1])

-----------------------------------------------------------------------------
(* C13: the nine fields of a row *)

HasArg(op, name) == \E k \in DOMAIN op.arg : op.arg[k].name = name

\* position of the first comma of a line, 0 when it has none
FirstComma(line) ==
  LET commas == {i \in 1..Len(line) : SubSeq(line, i, i) = ","}
  IN  IF commas = {} THEN 0 ELSE CHOOSE i \in commas : \A j \in commas : i <= j

\* the fields of an exported line
RECURSIVE Fields(_)
Fields(line) ==
  LET c == FirstComma(line)
  IN  IF c = 0 THEN <<line>>
      ELSE <<SubSeq(line, 1, c - 1)>> \o Fields(SubSeq(line, c + 1, Len(line)))

\* field f of a row reports argument name of op: absent as None, never as 0,
\* and a value that is given, 0 included, as that value
RowReports(f, op, name) ==
  /\ ~HasArg(op, name) => (f = None /\ f # Some(0))
  /\ \A k \in DOMAIN op.arg : op.arg[k].name = name => f = Some(op.arg[k].i)

\* field f of an exported line reports argument name of op: absent as the empty
\* field, never as "0", and an explicit 0 as "0", never as the empty field
LineReports(f, op, name) ==
  /\ ~HasArg(op, name) => (f = "" /\ f # "0")
  /\ \A k \in DOMAIN op.arg :
        op.arg[k].name = name =>
          /\ f = ToString(op.arg[k].i)
          /\ op.arg[k].i = 0 => (f = "0" /\ f # "")

\* C13: a row has nine fields (kind, in_channels, out_channels, kernel_h,
\* kernel_w, padding, stride, out_h, out_w); a kernel, padding or stride the
\* operator does not carry is reported as not applicable (None in the row, the
\* empty field in the exported line) and never as 0, and an explicit 0 is
\* reported as 0 and never as not applicable.
C13_NineFields ==
  /\ pc \in {"loop", "export", "error"} =>
       \A j \in DOMAIN descriptions :
          /\ Len(descriptions[j]) = 9
          /\ RowReports(descriptions[j][4], caffe2_model_def[j], "kernel")
          /\ RowReports(descriptions[j][5], caffe2_model_def[j], "kernel")
          /\ RowReports(descriptions[j][6], caffe2_model_def[j], "pad")
          /\ RowReports(descriptions[j][7], caffe2_model_def[j], "stride")
  /\ pc = "done" =>
       \A j \in DOMAIN descriptions :
          LET f == Fields(descriptions[j])
          IN  /\ Len(f) = 9
              /\ LineReports(f[4], caffe2_model_def[j], "kernel")
              /\ LineReports(f[5], caffe2_model_def[j], "kernel")
              /\ LineReports(f[6], caffe2_model_def[j], "pad")
              /\ LineReports(f[7], caffe2_model_def[j], "stride")

\* an exported file with a pooling of explicit padding 0 and stride 0 and a
\* rectifier without kernel, padding and stride
C13_Witness ==
  /\ pc = "done"
  /\ \E j \in DOMAIN descriptions : descriptions[j] = "MaxPool,3,3,3,3,0,0,222,222"
  /\ \E j \in DOMAIN descriptions : descriptions[j] = "Relu,3,3,,,,,224,224"

-----------------------------------------------------------------------------
(* C15: shortcut branches *)

\* the out_channels recorded for the node named by the first input of node j:
\* those of the last node of that name described before j, or the seed
RecordedChannels(j) ==
  LET before == {i \in 1..(j - 1) : nodes[i].name = nodes[j].input[1]}
  IN  IF before = {} THEN 3 ELSE nodes[Max(before)].output_shapes[4]

\* C15: the dimension an operator is given is the one the table binds to the
\* handle of its first input, whichever earlier operator produced it, and not
\* the output of the operator processed just before; an operator without kernel
\* hands that dimension on.  In the TensorFlow cell the in_channels of a node is
\* the out_channels recorded for the node its first input names.
C15_InputFromTable ==
  /\ [][(pc = "loop" /\ pc' = "loop") =>
          LET d == dimensions[CurrentOp.input[1]]
          IN  /\ input_h' = d[1] /\ input_w' = d[2] /\ input_channels' = d[3]
              /\ descr'[2] = d[3]
              /\ ~Truthy(Attr(CurrentOp, "kernel")) =>
                   (descr'[8] = d[1] /\ descr'[9] = d[2])]_vars
  /\ [](pc \in {"tf_loop", "tf_done", "tf_error"} =>
          \A j \in DOMAIN descriptions :
             descriptions[j][2] = ToString(RecordedChannels(j)))

\* a rectifier on the output of the first convolution, processed right after a
\* pooling of that same output: its row has the convolution's size, not the
\* pooling's
C15_Witness ==
  /\ pc = "export" /\ idx = 3
  /\ caffe2_model_def[1].type = "Conv" /\ caffe2_model_def[1].output[1] = "a"
  /\ caffe2_model_def[2].type = "MaxPool" /\ caffe2_model_def[2].input[1] = "a"
  /\ caffe2_model_def[2].output[1] = "b"
  /\ caffe2_model_def[3].type = "Relu" /\ caffe2_model_def[3].input[1] = "a"
  /\ descriptions[1][8] = 112 /\ descriptions[2][8] = 56
  /\ descriptions[3][8] = 112

\* the same in the TensorFlow cell: a rectifier of the first convolution,
\* described right after a second convolution with other out_channels
C15_TFShortcut ==
  /\ pc = "tf_done" /\ Len(nodes) = 3
  /\ nodes[1].name = Conv0Name /\ nodes[2].name = Conv1Name
  /\ nodes[3].name = ReluName /\ nodes[3].input[1] = Conv0Name
  /\ descriptions[2][3] = "256" /\ descriptions[3][2] = "64"

-----------------------------------------------------------------------------
(* C16: the walk is linear and stops *)

\* what is left of the walk: the operators not visited yet, and the end of the
\* cell
Remaining == (Len(caffe2_model_def) - idx) + (IF pc = "loop" THEN 1 ELSE 0)

\* row j describes operator j
RowDescribes(row, op) ==
  /\ row[1] = op.type
  /\ row[4] = Attr(op, "kernel")
  /\ row[6] = Attr(op, "pad")
  /\ row[7] = Attr(op, "stride")

\* C16: the walk stops (every step takes one off the N + 1 - idx steps that
\* remain, so no walk takes more than N + 1 of them); it visits the operators
\* in order, each at most once; a walk without error ends after exactly N steps
\* with N rows, row i describing operator i.
C16_LinearWalk ==
  /\ [](pc \in {"loop", "export"} =>
          /\ idx <= Len(caffe2_model_def)
          /\ Len(descriptions) = idx
          /\ \A i \in 1..idx : RowDescribes(descriptions[i], caffe2_model_def[i]))
  /\ [][(pc = "loop" /\ pc' = "loop") => idx' = idx + 1]_vars
  /\ [](pc = "export" =>
          idx = Len(caffe2_model_def) /\ Len(descriptions) = Len(caffe2_model_def))
  /\ [](pc = "loop" => Remaining >= 1)
  /\ [][pc = "loop" => (Remaining' < Remaining /\ Remaining' >= 0)]_vars

\* a walk of three operators that ended without error
C16_Witness ==
  /\ pc = "export" /\ previous = NoRun
  /\ Len(caffe2_model_def) = 3 /\ idx = 3 /\ Len(descriptions) = 3
  /\ \A i \in 1..3 : descriptions[i][1] = caffe2_model_def[i].type
  /\ caffe2_model_def[1].type # caffe2_model_def[2].type
  /\ caffe2_model_def[2].type # caffe2_model_def[3].type

-----------------------------------------------------------------------------
(* C17: a failure has no partial effect *)

\* C17: when the walk fails at an operator, the dimension table and the rows
\* are left as they were after the operator before it: no handle is bound, no
\* row is appended, and no later operator is processed in that run.
C17_NoPartialEffect ==
  /\ [][(pc = "loop" /\ pc' = "error") =>
          (dimensions' = dimensions /\ descriptions' = descriptions
             /\ idx' = idx)]_vars
  /\ [][pc = "error" => (pc' = "loop" /\ idx' = 0 /\ previous' # NoRun)]_vars
  /\ []((pc = "error" /\ error \in {"KeyError: dimensions",
                                    "KeyError: tensor_out_channels"}) =>
          /\ idx < Len(caffe2_model_def)
          /\ Len(descriptions) = idx)

\* the walk failed at the second of three operators, on an unbound input
C17_Witness ==
  /\ pc = "error" /\ error = "KeyError: dimensions"
  /\ idx = 1 /\ Len(caffe2_model_def) = 3
  /\ Len(descriptions) = 1
  /\ DOMAIN dimensions = {DataHandle, caffe2_model_def[1].output[1]}

=============================================================================
